---- MODULE Spec2Model ----
(***************************************************************************)
(* Model of djedi/rest/api.py: the views APIView, EmbedApi and NodesApi.   *)
(*                                                                         *)
(* Each worker thread of the host serves one request at a time.  A request *)
(* is dispatched (CSRF check, handler lookup by HTTP method) and then its  *)
(* handler runs statement by statement, so that handlers of different      *)
(* threads interleave.  The cio settings scope written by                  *)
(* settings.configure(local=True, ...) is the thread's own scope; it is    *)
(* the only state that outlives a request.                                 *)
(***************************************************************************)
EXTENDS Integers, Sequences, FiniteSets, TLC

\* ------------------------------------------------------------- bounds
\* Largest number of keys of a request body.
MaxKeys == 2

\* ------------------------------------------------------------ universe
Threads == {"t1", "t2"}
Uris == {"u1", "u2"}
Defaults == {"d1"}
\* Content already stored for a URI, as opposed to the request's default.
StoredContent == "stored"
Methods == {"GET", "POST"}

\* Sequences of s without repetition, of length at most n (the items of a
\* JSON object: json.loads keeps one value per key, in document order).
DistinctSeqs(s, n) ==
    {q \in UNION {[1..k -> s] : k \in 0..n} :
        \A i, j \in 1..Len(q) : i # j => q[i] # q[j]}

Item(u, d) == [uri |-> u, default |-> d]

\* The (uri, default) items of a JSON-object body.
ItemSeqs ==
    UNION {
        {[i \in 1..Len(us) |-> Item(us[i], ds[i])] :
            ds \in [1..Len(us) -> Defaults]} :
        us \in DistinctSeqs(Uris, MaxKeys)}

\* request.body: a JSON object, JSON that is not an object, or no JSON.
Bodies ==
    {[kind |-> "object", items |-> its] : its \in ItemSeqs} \cup
    {[kind |-> "nonobject", items |-> <<>>], [kind |-> "malformed", items |-> <<>>]}

EmptyBody == [kind |-> "object", items |-> <<>>]

\* The requests the host can hand to the views.  perm is the verdict of
\* has_permission(request); only EmbedApi asks for it.  csrfOk tells whether
\* the request carries a valid CSRF token.
Requests ==
    {[view |-> "EmbedApi", method |-> m, perm |-> p, csrfOk |-> k, body |-> EmptyBody] :
        m \in Methods, p \in BOOLEAN, k \in BOOLEAN} \cup
    {[view |-> "NodesApi", method |-> m, perm |-> FALSE, csrfOk |-> k, body |-> b] :
        m \in Methods, k \in BOOLEAN, b \in Bodies}

NoRequest ==
    [view |-> "none", method |-> "none", perm |-> FALSE, csrfOk |-> FALSE, body |-> EmptyBody]

\* ------------------------------------------------------------ responses
Response(status, ctype, html, data, nocache) ==
    [status |-> status, contentType |-> ctype, html |-> html, data |-> data,
     noCache |-> nocache]

NoResponse == Response(0, "", "", {}, FALSE)

\* HttpResponse(status=204)
HttpResponse204 == Response(204, "text/html", "", {}, FALSE)

\* The response of render_embed(request=request).
RenderEmbed == Response(200, "text/html", "embed", {}, FALSE)

\* The host's answers that no view handler builds.
Forbidden403 == Response(403, "text/html", "", {}, FALSE)
MethodNotAllowed405 == Response(405, "text/html", "", {}, FALSE)

\* JSONResponseMixin.render_to_json(data)
RenderToJson(data) == Response(200, "application/json", "", data, FALSE)

\* never_cache: the wrapped handler's response gets the no-cache headers.
NeverCacheBroken(resp) == resp
NeverCache(resp) == [resp EXCEPT !.noCache = TRUE]

VARIABLES pc, req, idx, nodes, calls, resp, exc, renders, cacheOnGet, everConfigured

vars == <<pc, req, idx, nodes, calls, resp, exc, renders, cacheOnGet, everConfigured>>

\* ------------------------------------------------------------- dispatch
\* csrf_exempt on APIView.dispatch: as_view() copies the mark to the view of
\* every subclass of APIView.  EmbedApi derives from View directly.
CsrfExemptNone(view) == FALSE
CsrfExempt(view) == view = "NodesApi"

\* The CSRF check of the host: unsafe methods need a valid token unless the
\* view is exempt.
CsrfRejects(r) == ~CsrfExempt(r.view) /\ r.method = "POST" /\ ~r.csrfOk

\* View.dispatch looks the handler up by the lower-cased method name among
\* the methods the class defines: EmbedApi defines get, NodesApi post and get.
HandlerEmbedAnyMethod(view, method) ==
    IF view = "EmbedApi" THEN "embed_get"
    ELSE IF method = "POST" THEN "nodes_post" ELSE "nodes_get"
Handler(view, method) ==
    IF view = "EmbedApi"
        THEN IF method = "GET" THEN "embed_get" ELSE "http_method_not_allowed"
        ELSE IF method = "POST" THEN "nodes_post" ELSE "nodes_get"

\* ------------------------------------------------------------- EmbedApi
EmbedGetRaises(r) == IF r.perm THEN RenderEmbed ELSE Forbidden403
EmbedGet(r) == IF r.perm THEN RenderEmbed ELSE HttpResponse204

\* ------------------------------------------------------------- NodesApi
\* settings.configure(local=True, CACHE={"PIPE": {"CACHE_ON_GET": False}}):
\* the value of the flag in the thread's scope after the call.
ConfigureIgnored(flag) == flag
Configure(flag) == FALSE

\* The handlers return without restoring the settings scope.
FlagRestoredAtReturn(flag) == TRUE
FlagAtReturn(flag) == flag

\* json.loads(request.body).items(): the items, or the exception raised.
JsonLoadsLenient(body) ==
    [exc |-> "none", items |-> body.items]
JsonLoads(body) ==
    CASE body.kind = "object" -> [exc |-> "none", items |-> body.items]
      [] body.kind = "nonobject" -> [exc |-> "AttributeError", items |-> <<>>]
      [] OTHER -> [exc |-> "JSONDecodeError", items |-> <<>>]

\* The item the for loop visits at its i-th iteration.
LoopItemReversed(items, i) == items[Len(items) + 1 - i]
LoopItem(items, i) == items[i]

Node(u, c) == [uri |-> u, content |-> c]

\* The nodes cio.get(uri, default=default) may return: the library decides
\* the node's uri and whether the content is the default or stored content.
CioGetResults(uri, default) ==
    {Node(u, c) : u \in Uris, c \in {default, StoredContent}}

\* {node.uri: node.content for node in nodes}: a later node replaces an
\* earlier one of the same uri.
NodesDataFirstWins(ns) ==
    {<<ns[i].uri, ns[i].content>> : i \in
        {k \in 1..Len(ns) : \A j \in 1..(k - 1) : ns[j].uri # ns[k].uri}}
RECURSIVE NodesData(_)
NodesData(ns) ==
    IF ns = <<>> THEN {}
    ELSE LET n == Len(ns)
             before == NodesData(SubSeq(ns, 1, n - 1))
         IN  {p \in before : p[1] # ns[n].uri} \cup {<<ns[n].uri, ns[n].content>>}

\* ---------------------------------------------------------------- state
\* cio's default settings cache on get; CACHE_ON_GET is on until configured.
Init ==
    /\ pc = [t \in Threads |-> "idle"]
    /\ req = [t \in Threads |-> NoRequest]
    /\ idx = [t \in Threads |-> 0]
    /\ nodes = [t \in Threads |-> <<>>]
    /\ calls = [t \in Threads |-> <<>>]
    /\ resp = [t \in Threads |-> NoResponse]
    /\ exc = [t \in Threads |-> "none"]
    /\ renders = [t \in Threads |-> 0]
    /\ cacheOnGet = [t \in Threads |-> TRUE]
    /\ everConfigured = [t \in Threads |-> FALSE]

\* The host hands request r to idle thread t.
Receive(t, r) ==
    /\ pc[t] = "idle"
    /\ pc' = [pc EXCEPT ![t] = "dispatch"]
    /\ req' = [req EXCEPT ![t] = r]
    /\ UNCHANGED <<idx, nodes, calls, resp, exc, renders, cacheOnGet, everConfigured>>

\* The CSRF check rejects the request before any handler runs.
CsrfReject(t) ==
    /\ pc[t] = "dispatch"
    /\ CsrfRejects(req[t])
    /\ resp' = [resp EXCEPT ![t] = Forbidden403]
    /\ pc' = [pc EXCEPT ![t] = "done"]
    /\ UNCHANGED <<req, idx, nodes, calls, exc, renders, cacheOnGet, everConfigured>>

\* dispatch: no handler for the method.
MethodNotAllowed(t) ==
    /\ pc[t] = "dispatch"
    /\ ~CsrfRejects(req[t])
    /\ Handler(req[t].view, req[t].method) = "http_method_not_allowed"
    /\ resp' = [resp EXCEPT ![t] = MethodNotAllowed405]
    /\ pc' = [pc EXCEPT ![t] = "done"]
    /\ UNCHANGED <<req, idx, nodes, calls, exc, renders, cacheOnGet, everConfigured>>

\* dispatch: enter the handler of the method.
Dispatch(t) ==
    /\ pc[t] = "dispatch"
    /\ ~CsrfRejects(req[t])
    /\ Handler(req[t].view, req[t].method) # "http_method_not_allowed"
    /\ pc' = [pc EXCEPT ![t] = Handler(req[t].view, req[t].method)]
    /\ UNCHANGED <<req, idx, nodes, calls, resp, exc, renders, cacheOnGet, everConfigured>>

\* EmbedApi.get
EmbedApiGet(t) ==
    /\ pc[t] = "embed_get"
    /\ resp' = [resp EXCEPT ![t] = EmbedGet(req[t])]
    /\ renders' = [renders EXCEPT ![t] = IF EmbedGet(req[t]) = RenderEmbed THEN 1 ELSE 0]
    /\ pc' = [pc EXCEPT ![t] = "done"]
    /\ UNCHANGED <<req, idx, nodes, calls, exc, cacheOnGet, everConfigured>>

\* NodesApi.post, first statement: the configure call.
NodesPostConfigure(t) ==
    /\ pc[t] = "nodes_post"
    /\ cacheOnGet' = [cacheOnGet EXCEPT ![t] = Configure(cacheOnGet[t])]
    /\ everConfigured' = [everConfigured EXCEPT ![t] = TRUE]
    /\ pc' = [pc EXCEPT ![t] = "parse"]
    /\ UNCHANGED <<req, idx, nodes, calls, resp, exc, renders>>

\* NodesApi.get has no configure call: it starts with the loop header.
NodesGetEnter(t) ==
    /\ pc[t] = "nodes_get"
    /\ pc' = [pc EXCEPT ![t] = "parse"]
    /\ UNCHANGED <<req, idx, nodes, calls, resp, exc, renders, cacheOnGet, everConfigured>>

\* nodes = []; json.loads(request.body).items()
Parse(t) ==
    /\ pc[t] = "parse"
    /\ LET parsed == JsonLoads(req[t].body)
       IN  IF parsed.exc = "none"
           THEN /\ pc' = [pc EXCEPT ![t] = "fetch"]
                /\ idx' = [idx EXCEPT ![t] = 1]
                /\ exc' = exc
           ELSE /\ pc' = [pc EXCEPT ![t] = "error"]
                /\ idx' = idx
                /\ exc' = [exc EXCEPT ![t] = parsed.exc]
    /\ nodes' = [nodes EXCEPT ![t] = <<>>]
    /\ UNCHANGED <<req, calls, resp, renders, cacheOnGet, everConfigured>>

\* One iteration of the loop: node = cio.get(uri, default=default);
\* nodes.append(node).  The call is logged with the flag it ran under.
Fetch(t) ==
    /\ pc[t] = "fetch"
    /\ idx[t] <= Len(JsonLoads(req[t].body).items)
    /\ LET it == LoopItem(JsonLoads(req[t].body).items, idx[t])
       IN  \E node \in CioGetResults(it.uri, it.default) :
               /\ nodes' = [nodes EXCEPT ![t] = Append(@, node)]
               /\ calls' = [calls EXCEPT ![t] =
                      Append(@, [uri |-> it.uri, default |-> it.default,
                                 cacheOnGet |-> cacheOnGet[t], result |-> node])]
    /\ idx' = [idx EXCEPT ![t] = @ + 1]
    /\ UNCHANGED <<pc, req, resp, exc, renders, cacheOnGet, everConfigured>>

\* cio.get raises: the exception leaves the handler.
FetchFail(t) ==
    /\ pc[t] = "fetch"
    /\ idx[t] <= Len(JsonLoads(req[t].body).items)
    /\ LET it == LoopItem(JsonLoads(req[t].body).items, idx[t])
       IN  calls' = [calls EXCEPT ![t] =
               Append(@, [uri |-> it.uri, default |-> it.default,
                          cacheOnGet |-> cacheOnGet[t], result |-> Node("none", "none")])]
    /\ exc' = [exc EXCEPT ![t] = "LookupError"]
    /\ pc' = [pc EXCEPT ![t] = "error"]
    /\ UNCHANGED <<req, idx, nodes, resp, renders, cacheOnGet, everConfigured>>

\* After the loop: data = {...}; return self.render_to_json(data), through
\* never_cache for post.
Render(t) ==
    /\ pc[t] = "fetch"
    /\ idx[t] > Len(JsonLoads(req[t].body).items)
    /\ LET json == RenderToJson(NodesData(nodes[t]))
       IN  resp' = [resp EXCEPT ![t] =
               IF req[t].method = "POST" THEN NeverCache(json) ELSE json]
    /\ pc' = [pc EXCEPT ![t] = "done"]
    /\ UNCHANGED <<req, idx, nodes, calls, exc, renders, cacheOnGet, everConfigured>>

\* The response (or the exception) has left the view; the thread is free
\* again.  Nothing of the request remains but the thread's settings scope.
Finish(t) ==
    /\ pc[t] \in {"done", "error"}
    /\ pc' = [pc EXCEPT ![t] = "idle"]
    /\ req' = [req EXCEPT ![t] = NoRequest]
    /\ idx' = [idx EXCEPT ![t] = 0]
    /\ nodes' = [nodes EXCEPT ![t] = <<>>]
    /\ calls' = [calls EXCEPT ![t] = <<>>]
    /\ resp' = [resp EXCEPT ![t] = NoResponse]
    /\ exc' = [exc EXCEPT ![t] = "none"]
    /\ renders' = [renders EXCEPT ![t] = 0]
    /\ cacheOnGet' = [cacheOnGet EXCEPT ![t] = FlagAtReturn(@)]
    /\ UNCHANGED everConfigured

Next ==
    \E t \in Threads :
        \/ \E r \in Requests : Receive(t, r)
        \/ CsrfReject(t)
        \/ MethodNotAllowed(t)
        \/ Dispatch(t)
        \/ EmbedApiGet(t)
        \/ NodesPostConfigure(t)
        \/ NodesGetEnter(t)
        \/ Parse(t)
        \/ Fetch(t)
        \/ FetchFail(t)
        \/ Render(t)
        \/ Finish(t)

Spec == Init /\ [][Next]_vars

\* ------------------------------------------------------------ properties
IsEmbed(t, m) == req[t].view = "EmbedApi" /\ req[t].method = m
IsNodes(t, m) == req[t].view = "NodesApi" /\ req[t].method = m
Finished(t) == pc[t] \in {"done", "error"}
Items(t) == req[t].body.items
Failed(call) == call.result.uri = "none"
Keys(data) == {p[1] : p \in data}
AllCallsUnder(t, flag) == \A i \in 1..Len(calls[t]) : calls[t][i].cacheOnGet = flag

\* C1: a GET on EmbedApi is answered with render_embed's response (200,
\* embed HTML) exactly when has_permission holds; otherwise with 204 and an
\* empty body, render_embed is not called, and neither a 403 nor an exception
\* is ever produced.
C1_EmbedGetPermissionGate ==
    \A t \in Threads :
        IsEmbed(t, "GET") =>
            /\ exc[t] = "none"
            /\ resp[t].status # 403
            /\ renders[t] = 1 => req[t].perm
            /\ pc[t] = "done" =>
                   IF req[t].perm
                   THEN resp[t].status = 200 /\ resp[t].html = "embed" /\ renders[t] = 1
                   ELSE /\ resp[t].status = 204
                        /\ resp[t].html = ""
                        /\ resp[t].data = {}
                        /\ renders[t] = 0

C1_Witness ==
    \E t, s \in Threads :
        /\ IsEmbed(t, "GET") /\ pc[t] = "done" /\ req[t].perm /\ resp[t].status = 200
        /\ IsEmbed(s, "GET") /\ pc[s] = "done" /\ ~req[s].perm /\ resp[s].status = 204

\* C2 as stated: every POST on NodesApi with a JSON-object body ends in a 200
\* JSON response whose keys are exactly the request's URIs, each mapped to
\* the content cio.get resolved for it.
C2_KeysAreRequestUris ==
    \A t \in Threads :
        (IsNodes(t, "POST") /\ req[t].body.kind = "object" /\ Finished(t)) =>
            /\ resp[t].status = 200
            /\ Len(calls[t]) = Len(Items(t))
            /\ Keys(resp[t].data) = {Items(t)[i].uri : i \in 1..Len(Items(t))}
            /\ \A i \in 1..Len(Items(t)) :
                   <<Items(t)[i].uri, calls[t][i].result.content>> \in resp[t].data

\* C2 amended: when every cio.get of a POST with a JSON-object body returns
\* a node, the response is 200 JSON whose keys are exactly the uri attributes
\* of the returned nodes, one entry per key, each mapped to the content of
\* the last returned node of that uri.
C2_KeysAreNodeUris ==
    \A t \in Threads :
        (/\ IsNodes(t, "POST") /\ req[t].body.kind = "object" /\ Finished(t)
         /\ \A i \in 1..Len(calls[t]) : ~Failed(calls[t][i])) =>
            /\ pc[t] = "done"
            /\ resp[t].status = 200
            /\ resp[t].contentType = "application/json"
            /\ Len(calls[t]) = Len(Items(t))
            /\ Keys(resp[t].data) = {calls[t][i].result.uri : i \in 1..Len(calls[t])}
            /\ \A p, q \in resp[t].data : p[1] = q[1] => p = q
            /\ \A p \in resp[t].data :
                   \E i \in 1..Len(calls[t]) :
                       /\ calls[t][i].result = Node(p[1], p[2])
                       /\ \A j \in (i + 1)..Len(calls[t]) : calls[t][j].result.uri # p[1]

C2_Witness ==
    \E t \in Threads :
        /\ IsNodes(t, "POST") /\ pc[t] = "done" /\ Len(calls[t]) = 2
        /\ calls[t][1].result.uri = calls[t][2].result.uri
        /\ calls[t][1].result.content # calls[t][2].result.content
        /\ calls[t][2].result.uri # calls[t][2].uri
        /\ resp[t].data = {<<calls[t][2].result.uri, calls[t][2].result.content>>}

\* C3: within a POST on NodesApi the configure call comes first: every
\* cio.get of the request runs with CACHE_ON_GET false, and the flag stays
\* false from the configure call until the request has ended.
C3_PostFetchesUncached ==
    \A t \in Threads :
        IsNodes(t, "POST") =>
            /\ AllCallsUnder(t, FALSE)
            /\ pc[t] \in {"parse", "fetch", "done", "error"} => ~cacheOnGet[t]

C3_Witness ==
    \E t, s \in Threads :
        /\ IsNodes(t, "POST") /\ pc[t] = "done" /\ Len(calls[t]) = 2
        /\ IsNodes(s, "GET") /\ Len(calls[s]) = 1 /\ calls[s][1].cacheOnGet

\* C4 as stated: a request observes the caching behaviour it would observe
\* alone, whatever ran before it or beside it: a GET on NodesApi fetches with
\* the default CACHE_ON_GET (on), a POST with the flag it configured (off).
C4_RequestsIndependent ==
    \A t \in Threads :
        /\ IsNodes(t, "GET") => AllCallsUnder(t, TRUE)
        /\ IsNodes(t, "POST") => AllCallsUnder(t, FALSE)

\* C5: a body that is not a JSON object, or a cio.get that raises, ends the
\* NodesApi request in the exception: no response is built, a body that does
\* not parse leads to no cio.get call, and a 200 response exists only when
\* every item was fetched.
C5_ErrorsPropagate ==
    \A t \in Threads :
        req[t].view = "NodesApi" =>
            /\ req[t].body.kind # "object" =>
                   /\ calls[t] = <<>>
                   /\ resp[t] = NoResponse
                   /\ Finished(t) =>
                          pc[t] = "error" /\ exc[t] \in {"JSONDecodeError", "AttributeError"}
            /\ (\E i \in 1..Len(calls[t]) : Failed(calls[t][i])) =>
                   pc[t] = "error" /\ exc[t] = "LookupError" /\ resp[t] = NoResponse
            /\ pc[t] = "error" => resp[t] = NoResponse /\ exc[t] # "none"
            /\ resp[t] # NoResponse =>
                   /\ exc[t] = "none"
                   /\ Len(calls[t]) = Len(Items(t))
                   /\ \A i \in 1..Len(calls[t]) : ~Failed(calls[t][i])

C5_Witness ==
    \E t, s \in Threads :
        /\ req[t].view = "NodesApi" /\ req[t].body.kind = "malformed"
        /\ pc[t] = "error" /\ exc[t] = "JSONDecodeError"
        /\ req[s].view = "NodesApi" /\ pc[s] = "error" /\ exc[s] = "LookupError"
        /\ Len(calls[s]) = 2 /\ Len(nodes[s]) = 1

\* C6 as stated: a POST on EmbedApi is answered as a GET is: the embed when
\* has_permission holds, 204 with an empty body otherwise.
C6_EmbedPostAsGet ==
    \A t \in Threads :
        (IsEmbed(t, "POST") /\ pc[t] = "done") =>
            resp[t] = IF req[t].perm THEN RenderEmbed ELSE HttpResponse204

\* C6 amended: EmbedApi answers GET only.  A POST never enters
\* EmbedApi.get and never calls render_embed, whatever has_permission says:
\* it is answered 405 by dispatch, or 403 when the CSRF check rejects it.
C6_EmbedPostNotAllowed ==
    \A t \in Threads :
        IsEmbed(t, "POST") =>
            /\ pc[t] \in {"dispatch", "done"}
            /\ renders[t] = 0
            /\ pc[t] = "done" =>
                   /\ resp[t].status \in {403, 405}
                   /\ req[t].csrfOk => resp[t].status = 405
                   /\ resp[t].html = ""

C6_Witness ==
    \E t \in Threads :
        /\ IsEmbed(t, "POST") /\ req[t].perm /\ req[t].csrfOk
        /\ pc[t] = "done" /\ resp[t].status = 405

\* C7: every response a POST on NodesApi returns carries the no-cache
\* headers and the JSON content type, whatever the body.
C7_PostNeverCached ==
    \A t \in Threads :
        (IsNodes(t, "POST") /\ resp[t] # NoResponse) =>
            /\ resp[t].noCache
            /\ resp[t].contentType = "application/json"
            /\ resp[t].status = 200

C7_Witness ==
    \E t, s \in Threads :
        /\ IsNodes(t, "POST") /\ pc[t] = "done" /\ Items(t) = <<>> /\ resp[t].noCache
        /\ IsNodes(s, "POST") /\ pc[s] = "done" /\ Len(Items(s)) = 2 /\ resp[s].noCache

\* C8: no request to NodesApi (a subclass of APIView), GET or POST, with or
\* without a valid CSRF token, is rejected by the CSRF check: it always
\* reaches its handler.  EmbedApi is not exempt: a POST without a valid
\* token is rejected with 403.
C8_ApiViewCsrfExempt ==
    \A t \in Threads :
        /\ (req[t].view = "NodesApi" /\ pc[t] # "dispatch") =>
               /\ resp[t].status # 403
               /\ pc[t] \in {"nodes_post", "nodes_get", "parse", "fetch", "done", "error"}
        /\ (IsEmbed(t, "POST") /\ ~req[t].csrfOk /\ pc[t] # "dispatch") =>
               pc[t] = "done" /\ resp[t] = Forbidden403

C8_Witness ==
    \E t, s \in Threads :
        /\ IsNodes(t, "POST") /\ ~req[t].csrfOk /\ pc[t] = "done" /\ resp[t].status = 200
        /\ IsEmbed(s, "POST") /\ ~req[s].csrfOk /\ pc[s] = "done" /\ resp[s].status = 403

\* C9: CACHE_ON_GET changes only in the configure call of a POST on
\* NodesApi, and only to false; in a scope where that call has run the flag
\* is false ever after, so every later cio.get there, a GET's included, runs
\* with get-caching off.
C9_NeverReenabled ==
    /\ [](\A t \in Threads :
              everConfigured[t] => ~cacheOnGet[t] /\ AllCallsUnder(t, FALSE))
    /\ [][\A t \in Threads :
              cacheOnGet'[t] # cacheOnGet[t] =>
                  IsNodes(t, "POST") /\ pc[t] = "nodes_post" /\ ~cacheOnGet'[t]]_vars

C9_Witness ==
    \E t \in Threads :
        /\ everConfigured[t]
        /\ IsNodes(t, "GET") /\ pc[t] = "done" /\ Len(calls[t]) = 2

\* C10: a NodesApi request calls cio.get once per item of the body, in the
\* items' order, and builds its response only after all the calls; the
\* response is keyed by the returned nodes' uris, so it has at most as many
\* entries as the body has keys, and of two nodes of one uri the later
\* fetched one is reported.
C10_OneCallPerItemInOrder ==
    \A t \in Threads :
        req[t].view = "NodesApi" =>
            /\ Len(calls[t]) <= Len(Items(t))
            /\ \A i \in 1..Len(calls[t]) :
                   calls[t][i].uri = Items(t)[i].uri /\ calls[t][i].default = Items(t)[i].default
            /\ resp[t] # NoResponse =>
                   /\ Len(calls[t]) = Len(Items(t))
                   /\ Cardinality(resp[t].data) <= Len(Items(t))
                   /\ \A i \in 1..Len(calls[t]) : calls[t][i].result.uri \in Keys(resp[t].data)
                   /\ \A i, j \in 1..Len(calls[t]) :
                          (i < j /\ calls[t][i].result.uri = calls[t][j].result.uri
                                 /\ calls[t][i].result.content # calls[t][j].result.content) =>
                              <<calls[t][i].result.uri, calls[t][i].result.content>>
                                  \notin resp[t].data

C10_Witness ==
    \E t \in Threads :
        /\ IsNodes(t, "GET") /\ pc[t] = "done" /\ Len(calls[t]) = 2
        /\ calls[t][1].uri # calls[t][2].uri
        /\ calls[t][1].result.uri = calls[t][2].result.uri
        /\ calls[t][1].result.content # calls[t][2].result.content
        /\ Cardinality(resp[t].data) = 1

====
